---- MODULE Spec2Model ----
(***************************************************************************)
(* Model of flipkart_price_alert.py: the price-alert bot's JSON store, its *)
(* command handlers (add_product, remove_product, check_prices) and the    *)
(* scan cycle check_all_prices, run by the job queue and by /check.        *)
(*                                                                         *)
(* The bot is one asyncio event loop.  The job queue's callback and the    *)
(* update handlers are separate coroutines: code between two awaits runs   *)
(* without interleaving, and at an await the other coroutine may run.      *)
(* `running` names the coroutine that holds the event loop.                *)
(***************************************************************************)
EXTENDS Integers, Sequences, FiniteSets, TLC

\* ---------------------------------------------------------------- bounds
MaxPrice == 3          \* page prices are 1..MaxPrice
MaxAdds == 2           \* alerts created over a behaviour (values of time.time())
MaxCycles == 2         \* scan cycles started over a behaviour

\* ------------------------------------------------------------ data model
Users == {"u1", "u2"}
Prices == 1..MaxPrice
Names == {"n1", "n2"}
Cycles == {"timer", "manual"}

UrlA == "https://www.flipkart.com/a/p/x?pid=A"
UrlB == "https://www.flipkart.com/b"
UrlOther == "https://www.amazon.in/c"
Urls == {UrlA, UrlB}

\* extract_product_id: re.search(r'pid=([^&]+)', url); "" stands for None
ExtractProductId(url) == IF url = UrlA THEN "A" ELSE ""

\* no check of the domain
AnyUrl(url) == TRUE

\* 'flipkart.com' in url
IsFlipkartUrl(url) == url \in Urls

\* int(context.args[1]): the value, or -1 for ValueError
ParseInt(s) ==
  CASE s = "1" -> 1
    [] s = "2" -> 2
    [] s = "3" -> 3
    [] OTHER -> -1

\* str(len(products[user_id]))
Str(n) ==
  CASE n = 0 -> "0"
    [] n = 1 -> "1"
    [] n = 2 -> "2"
    [] n = 3 -> "3"
    [] OTHER -> "4"

\* the dict json.load returns: keys in document order, a list per key
EmptyDict == [keys |-> <<>>, val |-> [u \in Users |-> <<>>]]

HasKey(d, u) == \E j \in 1..Len(d.keys) : d.keys[j] = u

\* what get_product_details returns: None (ok = FALSE) or the details
FetchResults ==
  {[ok |-> FALSE, name |-> "", price |-> 0]}
    \cup {[ok |-> TRUE, name |-> n, price |-> p] : n \in Names, p \in Prices}

\* the details add_product gets: the page has its first title, Names[1]
FirstTitle == "n1"
FirstFetchResults == {d \in FetchResults : d.ok => d.name = FirstTitle}

\* how a call of save_products ends: written; open() raises and the file is
\* as before; json.dump raises after open() truncated the file
SaveOutcomes == {"ok", "open_fails", "write_fails"}

VARIABLES
  store,      \* the document in product_alerts.json
  fileOk,     \* FALSE when the file holds a partial document
  clock,      \* number of alerts created so far (time.time() of the next)
  started,    \* number of scan cycles started so far
  running,    \* the coroutine holding the event loop, or "none"
  cyc,        \* per coroutine: the locals of check_all_prices
  hist,       \* per coroutine: record of what its current cycle has done
  status,     \* per alert (by added_on): "none", "live" or "removed"
  notified,   \* per alert: dispatches since it was last fetched above target
  lastAbove   \* per alert: its latest successful cycle fetch was above target

vars ==
  <<store, fileOk, clock, started, running, cyc, hist, status, notified, lastAbove>>

Keys == 1..MaxAdds

IdleCycle ==
  [pc |-> "idle", products |-> EmptyDict, users |-> <<>>, k |-> 1, i |-> 1,
   user_updates |-> <<>>, updates_found |-> FALSE]

NoHist ==
  [loaded |-> EmptyDict, log |-> <<>>, crossed |-> <<>>, sent |-> <<>>,
   saveCalls |-> 0, saved |-> FALSE]

Init ==
  /\ store = EmptyDict
  /\ fileOk = TRUE
  /\ clock = 0
  /\ started = 0
  /\ running = "none"
  /\ cyc = [c \in Cycles |-> IdleCycle]
  /\ hist = [c \in Cycles |-> NoHist]
  /\ status = [a \in Keys |-> "none"]
  /\ notified = [a \in Keys |-> 0]
  /\ lastAbove = [a \in Keys |-> FALSE]

\* ------------------------------------------------------------ the store
\* load_products: the document (not reached when the file is partial:
\* json.load raises and the caller ends there)
LoadProducts == store

\* the document in the file after save_products(doc) ended as w
FileAfterSave(doc, w) ==
  CASE w = "ok" -> doc
    [] w = "open_fails" -> store
    [] OTHER -> EmptyDict

FileOkAfterSave(w) ==
  CASE w = "ok" -> TRUE
    [] w = "open_fails" -> fileOk
    [] OTHER -> FALSE

save_products(doc, w) ==
  /\ store' = FileAfterSave(doc, w)
  /\ fileOk' = FileOkAfterSave(w)

\* ------------------------------------------------------- command handlers
\* The application processes updates one at a time: a handler starts only
\* when the previous one has returned (the manual cycle is idle).
HandlerFree == running = "none" /\ cyc["manual"].pc = "idle"

AddArgs ==
  {<<>>, <<UrlA>>, <<UrlA, "abc">>, <<UrlOther, "2">>, <<UrlA, "2">>, <<UrlB, "2">>}

WithKey(d, u) == IF HasKey(d, u) THEN d ELSE [d EXCEPT !.keys = Append(@, u)]

NewAlert(products, u, url, target, d, t) ==
  [id |-> IF ExtractProductId(url) # "" THEN ExtractProductId(url)
          ELSE Str(Len(products.val[u])),
   name |-> d.name,
   url |-> url,
   current_price |-> d.price,
   target_price |-> target,
   added_on |-> t]

AppendAlert(products, u, alert) ==
  [WithKey(products, u) EXCEPT !.val[u] = Append(@, alert)]

\* the /add handler, get_product_details returning d
AddProductWith(u, args, d) ==
  /\ HandlerFree
  /\ IF Len(args) < 2 \/ ParseInt(args[2]) = -1 \/ ~IsFlipkartUrl(args[1])
     THEN UNCHANGED vars
     ELSE
       IF ~d.ok \/ ~fileOk
       THEN UNCHANGED vars
       ELSE
         /\ clock < MaxAdds
         /\ \E w \in SaveOutcomes :
              LET t == clock + 1
                  alert == NewAlert(LoadProducts, u, args[1], ParseInt(args[2]), d, t)
              IN /\ save_products(AppendAlert(LoadProducts, u, alert), w)
                 /\ clock' = t
                 /\ status' = [status EXCEPT ![t] = IF w = "ok" THEN "live" ELSE @]
                 /\ UNCHANGED <<started, running, cyc, hist, notified, lastAbove>>

add_product(u, args) == \E d \in FirstFetchResults : AddProductWith(u, args, d)

RemoveArgs == {<<>>, <<"A">>, <<"0">>, <<"1">>}

\* the loop's index is used without the found flag: with no match the
\* first alert is popped
FirstMatchOrFirst(lst, alert_id) ==
  IF \E j \in 1..Len(lst) : lst[j].id = alert_id
  THEN CHOOSE j \in 1..Len(lst) :
         lst[j].id = alert_id /\ \A m \in 1..(j - 1) : lst[m].id # alert_id
  ELSE 1

\* the loop runs to its end without break: the last match is popped
LastMatch(lst, alert_id) ==
  IF \E j \in 1..Len(lst) : lst[j].id = alert_id
  THEN CHOOSE j \in 1..Len(lst) :
         lst[j].id = alert_id /\ \A m \in (j + 1)..Len(lst) : lst[m].id # alert_id
  ELSE 0

\* index of the first alert whose id is alert_id, 0 when there is none
FirstMatch(lst, alert_id) ==
  IF \E j \in 1..Len(lst) : lst[j].id = alert_id
  THEN CHOOSE j \in 1..Len(lst) :
         lst[j].id = alert_id /\ \A m \in 1..(j - 1) : lst[m].id # alert_id
  ELSE 0

Pop(lst, j) == SubSeq(lst, 1, j - 1) \o SubSeq(lst, j + 1, Len(lst))

remove_product(u, args) ==
  /\ HandlerFree
  /\ IF Len(args) = 0 \/ ~fileOk
     THEN UNCHANGED vars
     ELSE
       LET products == LoadProducts
           j == FirstMatch(products.val[u], args[1])
       IN IF ~HasKey(products, u) \/ products.val[u] = <<>> \/ j = 0
          THEN UNCHANGED vars
          ELSE \E w \in SaveOutcomes :
            /\ save_products([products EXCEPT !.val[u] = Pop(@, j)], w)
            /\ status' = [status EXCEPT ![products.val[u][j].added_on] =
                            IF w = "ok" THEN "removed" ELSE @]
            /\ UNCHANGED <<clock, started, running, cyc, hist, notified, lastAbove>>

\* ---------------------------------------------------------- the scan cycle
\* check_all_prices, first lines: load, pick the users, enter the loop
CheckAllPricesStart(c, specific_users) ==
  /\ running = "none"
  /\ cyc[c].pc = "idle"
  /\ started < MaxCycles
  /\ IF ~fileOk
     THEN UNCHANGED vars
     ELSE
       /\ cyc' = [cyc EXCEPT ![c] =
                    [pc |-> "loop",
                     products |-> LoadProducts,
                     users |-> IF specific_users # <<>> THEN specific_users
                               ELSE LoadProducts.keys,
                     k |-> 1, i |-> 1,
                     user_updates |-> <<>>,
                     updates_found |-> FALSE]]
       /\ hist' = [hist EXCEPT ![c] = [NoHist EXCEPT !.loaded = LoadProducts]]
       /\ running' = c
       /\ started' = started + 1
       /\ UNCHANGED <<store, fileOk, clock, status, notified, lastAbove>>

\* the job queue's callback: every user of the document
scheduled_price_check == CheckAllPricesStart("timer", <<>>)

\* a /check that runs over every user of the document
check_prices_all(u) == CheckAllPricesStart("manual", <<>>)

\* the /check handler: the caller alone
check_prices(u) == CheckAllPricesStart("manual", <<u>>)

CurUser(r) == r.users[r.k]
CurList(r) == r.products.val[CurUser(r)]
CurAlert(r) == CurList(r)[r.i]

\* the loop is at an alert of a user that has a list
AtAlert(r) ==
  /\ r.pc = "loop"
  /\ r.k <= Len(r.users)
  /\ HasKey(r.products, CurUser(r))
  /\ r.i <= Len(CurList(r))

\* the loop has finished the current user (or skips it: not in products)
AtUserEnd(r) ==
  /\ r.pc = "loop"
  /\ r.k <= Len(r.users)
  /\ (HasKey(r.products, CurUser(r)) => r.i > Len(CurList(r)))

\* a level trigger: fires whenever the price is at or below the target
CrossingLevel(current_price, old_price, target_price) ==
  current_price <= target_price

\* the condition of line 239
Crossing(current_price, old_price, target_price) ==
  current_price <= target_price /\ old_price > target_price

\* break instead of continue: a failed fetch ends the user's loop
AfterFailedFetchBreak(r) == [r EXCEPT !.i = Len(CurList(r)) + 1]

\* the failed result's price is stored before the continue
AfterFailedFetchStores(r) ==
  [r EXCEPT !.products.val[CurUser(r)][r.i].current_price = 0, !.i = @ + 1]

\* lines 229-230: not product_details, continue
AfterFailedFetch(r) == [r EXCEPT !.i = @ + 1]

\* updates_found is set by every fetched price, not by a crossing
AfterFetchMarksUpdate(r, d) ==
  LET alert == CurAlert(r)
      old_price == alert.current_price
      current_price == d.price
  IN [r EXCEPT
        !.products.val[CurUser(r)][r.i].current_price = current_price,
        !.user_updates =
           IF Crossing(current_price, old_price, alert.target_price)
           THEN Append(@, [name |-> alert.name,
                           old_price |-> old_price,
                           current_price |-> current_price,
                           target_price |-> alert.target_price,
                           url |-> alert.url])
           ELSE @,
        !.updates_found = TRUE,
        !.i = @ + 1]

\* lines 232-246: update the price, append to user_updates on a crossing
AfterFetch(r, d) ==
  LET alert == CurAlert(r)
      old_price == alert.current_price
      current_price == d.price
  IN [r EXCEPT
        !.products.val[CurUser(r)][r.i].current_price = current_price,
        !.user_updates =
           IF Crossing(current_price, old_price, alert.target_price)
           THEN Append(@, [name |-> alert.name,
                           old_price |-> old_price,
                           current_price |-> current_price,
                           target_price |-> alert.target_price,
                           url |-> alert.url])
           ELSE @,
        !.i = @ + 1]

Min(a, b) == IF a < b THEN a ELSE b

\* one iteration of the inner loop, get_product_details returning d
FetchAlertWith(c, d) ==
  LET r == cyc[c]
      alert == CurAlert(r)
  IN /\ running = c
     /\ AtAlert(r)
     /\ LET nr == IF d.ok THEN AfterFetch(r, d) ELSE AfterFailedFetch(r)
          IN /\ cyc' = [cyc EXCEPT ![c] = nr]
             /\ hist' = [hist EXCEPT
                  ![c].log = Append(@, [user |-> CurUser(r), idx |-> r.i,
                                        key |-> alert.added_on,
                                        ok |-> d.ok, price |-> d.price]),
                  ![c].crossed =
                     IF Len(nr.user_updates) > Len(r.user_updates)
                     THEN Append(@, [idx |-> r.i, key |-> alert.added_on])
                     ELSE @]
             /\ notified' =
                  IF d.ok /\ d.price > alert.target_price
                  THEN [notified EXCEPT ![alert.added_on] = 0]
                  ELSE notified
             /\ lastAbove' =
                  IF d.ok
                  THEN [lastAbove EXCEPT ![alert.added_on] =
                          d.price > alert.target_price]
                  ELSE lastAbove
     /\ UNCHANGED <<store, fileOk, clock, started, running, status>>

\* one iteration of the inner loop: fetch the alert's page
FetchAlert(c) == \E d \in FetchResults : FetchAlertWith(c, d)

\* the loop goes to the next user with the batch of the previous one
NextUserKeeps(r) == [r EXCEPT !.k = @ + 1, !.i = 1]

\* the loop goes to the next user
NextUser(r) == [r EXCEPT !.k = @ + 1, !.i = 1, !.user_updates = <<>>]

\* lines 251-263: user_updates is not empty, the message goes out
CallSend(r) == [r EXCEPT !.updates_found = TRUE, !.pc = "send"]

\* end of the outer loop's body: send the user's message, or go on
EndUser(c) ==
  LET r == cyc[c]
      u == CurUser(r)
  IN /\ running = c
     /\ AtUserEnd(r)
     /\ IF HasKey(r.products, u) /\ r.user_updates # <<>>
        THEN
          /\ cyc' = [cyc EXCEPT ![c] = CallSend(r)]
          /\ running' = "none"
          /\ hist' = [hist EXCEPT ![c].sent =
                        Append(@, [user |-> u, items |-> r.user_updates,
                                   keys |-> hist[c].crossed,
                                   result |-> "pending"])]
          /\ notified' =
               [a \in Keys |->
                  IF \E n \in 1..Len(hist[c].crossed) : hist[c].crossed[n].key = a
                  THEN Min(notified[a] + 1, 2) ELSE notified[a]]
        ELSE
          /\ cyc' = [cyc EXCEPT ![c] = NextUser(r)]
          /\ hist' = [hist EXCEPT ![c].crossed = <<>>]
          /\ UNCHANGED <<running, notified>>
     /\ UNCHANGED <<store, fileOk, clock, started, status, lastAbove>>

\* no try/except around send_message: the exception leaves the cycle
AfterSendRaises(r, ok) ==
  IF ok THEN [NextUser(r) EXCEPT !.pc = "loop"] ELSE [r EXCEPT !.pc = "done"]

\* lines 262-265: send_message returned or raised; the exception is logged
AfterSend(r, ok) == [NextUser(r) EXCEPT !.pc = "loop"]

\* the coroutine resumes from await context.bot.send_message
SendReturn(c) ==
  LET r == cyc[c]
  IN /\ running = "none"
     /\ r.pc = "send"
     /\ \E ok \in BOOLEAN :
          /\ cyc' = [cyc EXCEPT ![c] = AfterSend(r, ok)]
          /\ hist' = [hist EXCEPT
               ![c].sent[Len(hist[c].sent)].result = IF ok THEN "ok" ELSE "failed",
               ![c].crossed = <<>>]
     /\ running' = c
     /\ UNCHANGED <<store, fileOk, clock, started, status, notified, lastAbove>>

\* only the users the cycle checked are written
SaveDocSelected(r) ==
  [keys |-> r.users,
   val |-> [u \in Users |->
              IF \E j \in 1..Len(r.users) : r.users[j] = u
              THEN r.products.val[u] ELSE <<>>]]

\* the argument of save_products on line 269
SaveDoc(r) == r.products

\* lines 267-271: after the loop, save when a message went out
FinishCycle(c) ==
  LET r == cyc[c]
  IN /\ running = c
     /\ r.pc = "loop"
     /\ r.k > Len(r.users)
     /\ cyc' = [cyc EXCEPT ![c].pc = "done"]
     /\ IF r.updates_found
        THEN \E w \in SaveOutcomes :
          /\ save_products(SaveDoc(r), w)
          /\ hist' = [hist EXCEPT ![c].saveCalls = @ + 1,
                                  ![c].saved = (w = "ok")]
        ELSE UNCHANGED <<store, fileOk, hist>>
     /\ UNCHANGED <<clock, started, running, status, notified, lastAbove>>

\* check_all_prices returns (or the exception of save_products leaves it)
ReturnCycle(c) ==
  /\ running = c
  /\ cyc[c].pc = "done"
  /\ cyc' = [cyc EXCEPT ![c] = IdleCycle]
  /\ hist' = [hist EXCEPT ![c] = NoHist]
  /\ running' = "none"
  /\ UNCHANGED <<store, fileOk, clock, started, status, notified, lastAbove>>

Next ==
  \/ \E u \in Users, args \in AddArgs : add_product(u, args)
  \/ \E u \in Users, args \in RemoveArgs : remove_product(u, args)
  \/ \E u \in Users : check_prices(u)
  \/ scheduled_price_check
  \/ \E c \in Cycles : FetchAlert(c)
  \/ \E c \in Cycles : EndUser(c)
  \/ \E c \in Cycles : SendReturn(c)
  \/ \E c \in Cycles : FinishCycle(c)
  \/ \E c \in Cycles : ReturnCycle(c)

Spec == Init /\ [][Next]_vars

\* ------------------------------------------------- definitions for claims
InCycle(c) == cyc[c].pc \in {"loop", "send"}

\* the alerts of a document, by their creation time
StoredKeys(d) ==
  {d.val[u][j].added_on : <<u, j>> \in {x \in Users \X Keys : x[2] <= Len(d.val[x[1]])}}

\* the cycle fetched (or tried to fetch) the alert at position i of user u
Fetched(c, u, i) ==
  \E n \in 1..Len(hist[c].log) : hist[c].log[n].user = u /\ hist[c].log[n].idx = i

\* every alert of every selected user has been fetched
AllFetched(c) ==
  \A j \in 1..Len(cyc[c].users) :
    LET u == cyc[c].users[j]
    IN HasKey(hist[c].loaded, u) =>
         \A i \in 1..Len(hist[c].loaded.val[u]) : Fetched(c, u, i)

\* the cycle produced a notification entry for the alert at position i of u
EntryProduced(c, u, i) ==
  \/ /\ cyc[c].pc = "loop"
     /\ cyc[c].k <= Len(cyc[c].users)
     /\ CurUser(cyc[c]) = u
     /\ \E n \in 1..Len(hist[c].crossed) : hist[c].crossed[n].idx = i
  \/ \E m \in 1..Len(hist[c].sent) :
       /\ hist[c].sent[m].user = u
       /\ \E n \in 1..Len(hist[c].sent[m].keys) : hist[c].sent[m].keys[n].idx = i

\* C1: in every cycle, a notification is dispatched only after that cycle's
\* save_products has completed successfully; a cycle whose save failed has
\* dispatched nothing.
PersistBeforeNotify ==
  \A c \in Cycles : hist[c].sent # <<>> => hist[c].saved

\* C2: no crossing is notified twice: between two dispatches that name the
\* same alert, some successful fetch has seen its price above the target.
ExactlyOnceNotification ==
  \A a \in Keys : notified[a] <= 1

\* C4: a timer cycle and a manual cycle are never both between their load
\* and their save.
SerializedCycles ==
  ~(InCycle("timer") /\ InCycle("manual"))

\* C5: while the file holds a document, every alert that was added and not
\* removed is in it, and no removed alert is in it.
NoLostOrResurrectedAlerts ==
  fileOk =>
    \A a \in Keys :
      /\ status[a] = "live" => a \in StoredKeys(store)
      /\ status[a] = "removed" => a \notin StoredKeys(store)

\* C10: within a cycle, no message is dispatched and no save is made until
\* every alert of every selected user has been fetched.
BarrierBeforeSaveAndDispatch ==
  \A c \in Cycles :
    (hist[c].sent # <<>> \/ hist[c].saveCalls > 0) => AllFetched(c)

\* the alert at position i of user u as the cycle loaded it
Loaded(c, u, i) == hist[c].loaded.val[u][i]

\* the fetch of log entry e found the price at or below the target, with
\* the loaded price above it
LogCrossed(c, e) ==
  /\ e.ok
  /\ e.price <= Loaded(c, e.user, e.idx).target_price
  /\ Loaded(c, e.user, e.idx).current_price > Loaded(c, e.user, e.idx).target_price

LogEntries(c) == {hist[c].log[n] : n \in 1..Len(hist[c].log)}

\* C3: for every alert a cycle fetched successfully, a notification entry
\* was produced iff the fetched price is at or below the target and the
\* price loaded at the start of the cycle is above it.
CrossingRule ==
  \A c \in Cycles : \A e \in LogEntries(c) :
    e.ok => (EntryProduced(c, e.user, e.idx) <=> LogCrossed(c, e))

\* a fetched price equal to the target fired after a loaded price above it,
\* and a loaded price equal to the target did not fire
CrossingRuleWitness ==
  \E c \in Cycles : \E e, f \in LogEntries(c) :
    /\ e.ok /\ e.price = Loaded(c, e.user, e.idx).target_price
    /\ LogCrossed(c, e) /\ EntryProduced(c, e.user, e.idx)
    /\ f.ok /\ f.price <= Loaded(c, f.user, f.idx).target_price
    /\ Loaded(c, f.user, f.idx).current_price = Loaded(c, f.user, f.idx).target_price
    /\ ~EntryProduced(c, f.user, f.idx)

\* the loop has passed position i of the j-th selected user
Passed(c, j, i) ==
  \/ j < cyc[c].k
  \/ j = cyc[c].k /\ i < cyc[c].i

\* C6: whatever fetches failed, a cycle fetches every alert it passes, every
\* successful fetch updates the alert's price and produces its notification
\* entry on a crossing, every user with an entry gets a dispatch, and the
\* cycle ends only when every alert of every selected user was fetched.
FetchFailureIsolation ==
  \A c \in Cycles : cyc[c].pc # "idle" =>
    /\ \A j \in 1..Len(cyc[c].users) :
         LET u == cyc[c].users[j]
         IN HasKey(hist[c].loaded, u) =>
              \A i \in 1..Len(hist[c].loaded.val[u]) :
                Passed(c, j, i) => Fetched(c, u, i)
    /\ \A e \in LogEntries(c) :
         e.ok =>
           /\ cyc[c].products.val[e.user][e.idx].current_price = e.price
           /\ LogCrossed(c, e) => EntryProduced(c, e.user, e.idx)
    /\ \A j \in 1..Len(cyc[c].users) :
         (j < cyc[c].k /\ \E e \in LogEntries(c) :
                            e.user = cyc[c].users[j] /\ LogCrossed(c, e))
           => \E m \in 1..Len(hist[c].sent) : hist[c].sent[m].user = cyc[c].users[j]
    /\ cyc[c].pc = "done" => AllFetched(c)

\* a finished cycle in which A's fetch failed and B, the same user's next
\* alert, was fetched after it, updated, and dispatched in the user's message
FetchFailureIsolationWitness ==
  \E c \in Cycles :
    /\ cyc[c].pc = "done"
    /\ \E n, m \in 1..Len(hist[c].log) :
         /\ n < m
         /\ ~hist[c].log[n].ok
         /\ hist[c].log[m].user = hist[c].log[n].user
         /\ LogCrossed(c, hist[c].log[m])
         /\ \E x \in 1..Len(hist[c].sent) :
              hist[c].sent[x].user = hist[c].log[m].user

\* the cycle's successful fetch of position i of user u, if any
OkEntries(c, u, i) == {e \in LogEntries(c) : e.user = u /\ e.idx = i /\ e.ok}

Positions(d) == {x \in Users \X Keys : x[2] <= Len(d.val[x[1]])}

AlertsOf(d) == {d.val[x[1]][x[2]] : x \in Positions(d)}

\* within a cycle, an alert differs from the loaded one only after its own
\* successful fetch, and only in current_price; a failed fetch leaves every
\* field as loaded and produces no notification entry
UnchangedUnlessFetched ==
  \A c \in Cycles : cyc[c].pc # "idle" =>
    /\ cyc[c].products.keys = hist[c].loaded.keys
    /\ Positions(cyc[c].products) = Positions(hist[c].loaded)
    /\ \A x \in Positions(hist[c].loaded) :
         LET u == x[1]
             i == x[2]
             a == cyc[c].products.val[u][i]
         IN IF OkEntries(c, u, i) # {}
            THEN \E e \in OkEntries(c, u, i) :
                   a = [Loaded(c, u, i) EXCEPT !.current_price = e.price]
            ELSE a = Loaded(c, u, i) /\ ~EntryProduced(c, u, i)

\* an alert of the document after a step is an alert of the document before
\* it, an alert of a cycle's copy (written by its save), or the alert the
\* step created
StoredFromCreationOrCycle ==
  fileOk' =>
    \A a \in AlertsOf(store') :
      \/ a \in AlertsOf(store)
      \/ \E c \in Cycles : a \in AlertsOf(cyc[c].products)
      \/ a.added_on = clock + 1 /\ clock' = clock + 1

\* C7: an alert's current_price and name are those of its creation or of a
\* successful fetch of it: a cycle alters an alert only by a successful
\* fetch, a failed fetch changes no field and produces no notification, and
\* the document only ever receives created alerts and cycles' copies.
FailedFetchLeavesAlertUnchanged ==
  []UnchangedUnlessFetched /\ [][StoredFromCreationOrCycle]_vars

\* a cycle saved a document containing an alert whose fetch failed in a
\* cycle where another alert's fetch succeeded with a new price
FailedFetchLeavesAlertUnchangedWitness ==
  \E c \in Cycles :
    /\ cyc[c].pc = "done"
    /\ hist[c].saved
    /\ \E e, f \in LogEntries(c) :
         /\ ~e.ok
         /\ Loaded(c, e.user, e.idx).current_price > Loaded(c, e.user, e.idx).target_price
         /\ f.ok
         /\ f.price # Loaded(c, f.user, f.idx).current_price

\* C8: a cycle calls save_products at most once; a finished cycle that
\* produced a notification called it exactly once, after every alert of
\* every selected user was fetched; a successful save wrote the cycle's
\* whole collection: every user and every alert it loaded.
SingleSavePerCycle ==
  \A c \in Cycles :
    /\ hist[c].saveCalls <= 1
    /\ hist[c].saveCalls = 1 => AllFetched(c) /\ cyc[c].pc = "done"
    /\ (cyc[c].pc = "done" /\ \E e \in LogEntries(c) : LogCrossed(c, e))
         => hist[c].saveCalls = 1
    /\ (cyc[c].pc = "done" /\ hist[c].saved) =>
         /\ store = cyc[c].products
         /\ store.keys = hist[c].loaded.keys
         /\ Positions(store) = Positions(hist[c].loaded)

\* a /check cycle with a crossing made its one save, and the document
\* written also holds the alerts of a user outside its filter
SingleSavePerCycleWitness ==
  /\ cyc["manual"].pc = "done"
  /\ hist["manual"].saved
  /\ hist["manual"].saveCalls = 1
  /\ \E e \in LogEntries("manual") : LogCrossed("manual", e)
  /\ \E u \in Users :
       /\ u # cyc["manual"].users[1]
       /\ store.val[u] # <<>>

\* the document a cycle's fetch results determine: the loaded one with the
\* price of every successfully fetched alert replaced
ExpectedDoc(c) ==
  [keys |-> hist[c].loaded.keys,
   val |-> [u \in Users |->
     [i \in 1..Len(hist[c].loaded.val[u]) |->
        IF OkEntries(c, u, i) # {}
        THEN [Loaded(c, u, i) EXCEPT
                !.current_price = (CHOOSE e \in OkEntries(c, u, i) : TRUE).price]
        ELSE Loaded(c, u, i)]]]

SentTo(c, u) == {m \in 1..Len(hist[c].sent) : hist[c].sent[m].user = u}

\* C9: whether or not a send_message call fails, a finished cycle has
\* fetched every alert, has dispatched exactly one message to every user
\* with a crossing, has called save_products, and a successful save wrote
\* the document its fetch results determine.
DeliveryFailureIsolation ==
  \A c \in Cycles : cyc[c].pc = "done" =>
    /\ AllFetched(c)
    /\ \A j \in 1..Len(cyc[c].users) :
         (\E e \in LogEntries(c) : e.user = cyc[c].users[j] /\ LogCrossed(c, e))
           => Cardinality(SentTo(c, cyc[c].users[j])) = 1
    /\ hist[c].sent # <<>> => hist[c].saveCalls = 1
    /\ hist[c].saved => store = ExpectedDoc(c)

\* a finished cycle whose first message failed, whose second message, to
\* another user, was dispatched, and whose save succeeded
DeliveryFailureIsolationWitness ==
  \E c \in Cycles :
    /\ cyc[c].pc = "done"
    /\ hist[c].saved
    /\ Len(hist[c].sent) = 2
    /\ hist[c].sent[1].result = "failed"
    /\ hist[c].sent[2].user # hist[c].sent[1].user

\* no alert of u in the document has the id alert_id
NoMatch(u, alert_id) ==
  \A j \in 1..Len(store.val[u]) : store.val[u][j].id # alert_id

\* C11: a remove whose id matches no alert of the caller (the caller may
\* have no alerts) writes nothing: the document and the state of the file
\* are as before, for every user.
IdempotentRemove ==
  [][\A u \in Users, args \in RemoveArgs :
       (Len(args) > 0 /\ NoMatch(u, args[1]) /\ remove_product(u, args))
         => (store' = store /\ fileOk' = fileOk)]_vars

\* the handler is free, a user has alerts, and an id names none of them
IdempotentRemoveWitness ==
  /\ HandlerFree
  /\ fileOk
  /\ \E u \in Users, args \in RemoveArgs :
       /\ Len(args) > 0
       /\ store.val[u] # <<>>
       /\ NoMatch(u, args[1])
       /\ \E v \in Users : v # u /\ store.val[v] # <<>>

\* C12: no two alerts in the same user's list have the same id.
AlertIdUnique ==
  \A u \in Users : \A i, j \in 1..Len(store.val[u]) :
    i # j => store.val[u][i].id # store.val[u][j].id

\* C13: the file always holds a complete document: a load, by a handler, by
\* a cycle or after a failed write, never finds a partial one.
AtomicSaveAll == fileOk

\* the step is a fetch of cycle c: its log grew by one entry
FetchStep(c) == Len(hist'[c].log) = Len(hist[c].log) + 1

LastEntry(c) == hist'[c].log[Len(hist'[c].log)]

\* C14: when the latest successful cycle fetch of an alert saw its price
\* above the target, the next successful fetch of it at or below the target
\* produces a notification entry.
RearmAfterRise ==
  [][\A c \in Cycles :
       (/\ FetchStep(c)
        /\ LastEntry(c).ok
        /\ LastEntry(c).price <= CurAlert(cyc[c]).target_price
        /\ lastAbove[LastEntry(c).key])
         => \E n \in 1..Len(hist'[c].crossed) :
              hist'[c].crossed[n].idx = LastEntry(c).idx]_vars

\* C15: a finished cycle in which no alert crossed has called save_products
\* zero times and the document is the one it loaded: the prices it fetched
\* are gone, and the next cycle compares with the persisted prices.
NoCrossingNoSave ==
  \A c \in Cycles :
    (cyc[c].pc = "done" /\ \A e \in LogEntries(c) : ~LogCrossed(c, e)) =>
      /\ hist[c].saveCalls = 0
      /\ fileOk
      /\ store = hist[c].loaded

\* a finished cycle without crossing fetched a price that differs from the
\* persisted one, and the persisted one is still in the document
NoCrossingNoSaveWitness ==
  \E c \in Cycles :
    /\ cyc[c].pc = "done"
    /\ \A e \in LogEntries(c) : ~LogCrossed(c, e)
    /\ \E e \in LogEntries(c) :
         /\ e.ok
         /\ e.price # store.val[e.user][e.idx].current_price
         /\ cyc[c].products.val[e.user][e.idx].current_price = e.price

\* C16: on every successful fetch both the current price and the name of the
\* alert are overwritten with the fetched price and name, and the step
\* changes nothing else of the document (url, target, id, creation time,
\* number and order of the alerts).
FetchOverwritesPriceAndName ==
  [][\A c \in Cycles, d \in FetchResults :
       (d.ok /\ FetchAlertWith(c, d)) =>
         cyc'[c].products =
           [cyc[c].products EXCEPT
              !.val[CurUser(cyc[c])][cyc[c].i].current_price = d.price,
              !.val[CurUser(cyc[c])][cyc[c].i].name = d.name]]_vars

\* the crossings of user u in cycle c, in the order the alerts were fetched
CrossedLog(c, u) ==
  SelectSeq(hist[c].log, LAMBDA e : e.user = u /\ LogCrossed(c, e))

\* the message items the crossings of user u amount to
ExpectedItems(c, u) ==
  [n \in 1..Len(CrossedLog(c, u)) |->
     LET e == CrossedLog(c, u)[n]
         a == Loaded(c, u, e.idx)
     IN [name |-> a.name, old_price |-> a.current_price,
         current_price |-> e.price, target_price |-> a.target_price,
         url |-> a.url]]

\* C17: a cycle sends at most one message per user; a user gets a message
\* iff at least one of the user's alerts crossed in the cycle, and the
\* message lists exactly that user's crossing alerts, in stored order.
OneMessagePerUser ==
  \A c \in Cycles :
    /\ \A u \in Users : Cardinality(SentTo(c, u)) <= 1
    /\ \A m \in 1..Len(hist[c].sent) :
         /\ hist[c].sent[m].items # <<>>
         /\ hist[c].sent[m].items = ExpectedItems(c, hist[c].sent[m].user)
    /\ \A u \in Users : \A n \in 1..(Len(CrossedLog(c, u)) - 1) :
         CrossedLog(c, u)[n].idx < CrossedLog(c, u)[n + 1].idx
    /\ cyc[c].pc = "done" =>
         \A u \in Users : CrossedLog(c, u) # <<>> <=> SentTo(c, u) # {}

OneMessagePerUserWitness ==
  \E c \in Cycles :
    /\ cyc[c].pc = "done"
    /\ Len(hist[c].sent) = 2
    /\ hist[c].sent[1].user # hist[c].sent[2].user
    /\ Len(hist[c].sent[1].items) = 1

\* C18: a manual check of user U fetches only U's alerts and sends only to
\* U; every other user's alerts are, in the document it works on and in the
\* file it saved, exactly as it loaded them. When U has no entry in the
\* document it fetches nothing, sends nothing and saves nothing.
ManualCheckScoped ==
  cyc["manual"].pc # "idle" =>
    \E U \in Users :
      /\ cyc["manual"].users = <<U>>
      /\ \A e \in LogEntries("manual") : e.user = U
      /\ \A m \in 1..Len(hist["manual"].sent) : hist["manual"].sent[m].user = U
      /\ \A v \in Users \ {U} :
           /\ cyc["manual"].products.val[v] = hist["manual"].loaded.val[v]
           /\ (cyc["manual"].pc = "done" /\ hist["manual"].saved) =>
                store.val[v] = hist["manual"].loaded.val[v]
      /\ cyc["manual"].products.keys = hist["manual"].loaded.keys
      /\ ~HasKey(hist["manual"].loaded, U) =>
           /\ hist["manual"].log = <<>>
           /\ hist["manual"].sent = <<>>
           /\ hist["manual"].saveCalls = 0

ManualCheckScopedWitness ==
  /\ cyc["manual"].pc = "done"
  /\ hist["manual"].saved
  /\ hist["manual"].sent # <<>>
  /\ \E v \in Users :
       /\ v # cyc["manual"].users[1]
       /\ store.val[v] # <<>>
       /\ store.val[v][1].current_price > store.val[v][1].target_price

\* the file holds the document of before without the j-th alert of user u
RemovedAt(u, j) ==
  /\ Len(store'.val[u]) = Len(store.val[u]) - 1
  /\ \A m \in 1..(j - 1) : store'.val[u][m] = store.val[u][m]
  /\ \A m \in j..(Len(store.val[u]) - 1) : store'.val[u][m] = store.val[u][m + 1]
  /\ \A v \in Users \ {u} : store'.val[v] = store.val[v]
  /\ store'.keys = store.keys

\* C19: a remove whose argument equals the id of one or more alerts of the
\* caller deletes the first such alert in stored order and only that one:
\* the caller's other alerts keep their order and contents and no other
\* user's list changes (unless the write of the file fails).
RemoveDeletesFirstMatch ==
  [][\A u \in Users, args \in RemoveArgs :
       (/\ Len(args) > 0 /\ fileOk /\ ~NoMatch(u, args[1])
        /\ remove_product(u, args))
         => \/ store' = store /\ fileOk'
            \/ ~fileOk'
            \/ \E j \in 1..Len(store.val[u]) :
                 /\ store.val[u][j].id = args[1]
                 /\ \A m \in 1..(j - 1) : store.val[u][m].id # args[1]
                 /\ RemovedAt(u, j)
                 /\ fileOk']_vars

RemoveDeletesFirstMatchWitness ==
  /\ HandlerFree
  /\ fileOk
  /\ \E u \in Users :
       /\ Len(store.val[u]) = 2
       /\ store.val[u][1].id = store.val[u][2].id

\* the file holds the document of before with one alert more, at the end
\* of the list of user u
AppendedTo(u) ==
  /\ Len(store'.val[u]) = Len(store.val[u]) + 1
  /\ \A m \in 1..Len(store.val[u]) : store'.val[u][m] = store.val[u][m]
  /\ \A v \in Users \ {u} : store'.val[v] = store.val[v]

NewestOf(u) == store'.val[u][Len(store'.val[u])]

====
